---- MODULE Spec2Model ----
(***************************************************************************)
(* Model of daemonize-me: the Daemon builder and Daemon::start, in the     *)
(* two forms the sources hold (src/src/daemon.rs, with hooks and process   *)
(* name, and src/src/lib.rs, the earlier form), with the calls start()     *)
(* makes into the OS recorded in a log, per process.                       *)
(***************************************************************************)
EXTENDS Integers, Sequences, FiniteSets, TLC

VARIABLES
    impl,      \* which Daemon::start runs: "daemon" (daemon.rs) or "lib" (lib.rs)
    os,        \* target_os of the build: "linux" or "macos"
    cfg,       \* the Daemon value (builder fields)
    pc,        \* per process: position in start()
    ret,       \* per process: what start() returned ("none" while running)
    log,       \* the calls made so far, in order, each with the calling process
    fds,       \* per process: what each descriptor 0..MaxFd refers to
    umaskv,    \* per process: the process umask
    pidfile,   \* the pid file on disk
    creds,     \* per process: uid, gid and whose supplementary groups it holds
    accounts,  \* the account database (passwd and group records)
    out        \* the result of the last direct call of one of the crate's functions

vars == <<impl, os, cfg, pc, ret, log, fds, umaskv, pidfile, creds, accounts, out>>

Procs == {"caller", "child"}

\* getpid() in the process that called start(), and in the forked child.
ParentPid == 100
ChildPid == 101

Pid(p) == IF p = "caller" THEN ParentPid ELSE ChildPid

\* Descriptors run from 0 to MaxFd (the limit on open files, less one).
MaxFd == 5

\* Option<T>: None is the empty sequence, Some(x) the sequence holding x.
None == <<>>
Some(x) == <<x>>
IsSome(o) == o # <<>>
IsNone(o) == o = <<>>
Unwrap(o) == o[1]

\* The identities the builder is given (User / Group: id and name).
TheUser == [id |-> 1, name |-> "daemon"]
TheGroup == [id |-> 2, name |-> "daemon"]

\* Values handed to Daemon::umask (u16): the default 0o027, 0o777, 0o1000,
\* 0o7777, 0o10000 and 0o177777.
UmaskValues == {511, 512, 4095, 4096, 65535}

\* Names handed to Daemon::name: a plain one, and one holding an interior NUL.
NameValues == {"daemon", "da\\0emon"}

\* The pid file path handed to Daemon::pid_file; a path is a sequence of
\* pieces of text.
PidPath == <<"example.pid">>

Errors ==
    {"Fork", "ChDir", "OpenDevNull", "CloseFp", "InvalidUser", "InvalidGroup",
     "InvalidUserGroupPair", "InitGroups", "SetUid", "SetGid", "ChownPid",
     "WritePid", "RedirectStream", "InvalidUmaskBits", "SetSid",
     "InvalidProcName", "SetProcName", "UnsupportedOnOS",
     "InvalidCstr", "GetGrRecord", "GetPasswdRecord"}

(***************************************************************************)
(* Descriptor tables and the calls on them (nix open, close, dup2).        *)
(***************************************************************************)

\* The lowest descriptor that is not open, -1 when the table is full.
LowestFree(f) ==
    IF \E i \in 0..MaxFd : f[i] = "closed"
      THEN CHOOSE i \in 0..MaxFd :
              f[i] = "closed" /\ \A j \in 0..(i - 1) : f[j] # "closed"
      ELSE -1

\* open(path): the new descriptor is the lowest free one; EMFILE when none is.
SysOpen(f, what, fails) ==
    IF fails \/ LowestFree(f) = -1 THEN [f |-> f, fd |-> -1, ok |-> FALSE]
    ELSE [f |-> [f EXCEPT ![LowestFree(f)] = what], fd |-> LowestFree(f), ok |-> TRUE]

\* close(fd): EBADF when fd is not open.
SysClose(f, fd, fails) ==
    IF fails \/ f[fd] = "closed" THEN [f |-> f, ok |-> FALSE]
    ELSE [f |-> [f EXCEPT ![fd] = "closed"], ok |-> TRUE]

\* dup2(oldfd, newfd): EBADF when oldfd is not open; newfd then refers to
\* what oldfd refers to.
SysDup2(f, oldfd, newfd, fails) ==
    IF fails \/ f[oldfd] = "closed" THEN [f |-> f, ok |-> FALSE]
    ELSE [f |-> [f EXCEPT ![newfd] = f[oldfd]], ok |-> TRUE]

(***************************************************************************)
(* The builder.                                                            *)
(***************************************************************************)

\* Stdio: Devnull, or RedirectToFile(file) with the file's raw descriptor
\* and the open file it stands for.
Devnull == [kind |-> "Devnull", raw_fd |-> -1, file |-> ""]
RedirectToFile(fd, file) == [kind |-> "RedirectToFile", raw_fd |-> fd, file |-> file]

\* Daemon::new()
NewDaemon ==
    [chdir |-> "/", pid_file |-> None, pid_num |-> None, chown_pid_file |-> FALSE,
     user |-> None, group |-> None, umask |-> 23,
     stdin |-> Devnull, stdout |-> Devnull, stderr |-> Devnull,
     name |-> None,
     before_fork_hook |-> FALSE, after_fork_parent_hook |-> FALSE,
     after_fork_child_hook |-> FALSE, after_init_hook |-> FALSE,
     after_init_hook_data |-> None]

Building == pc["caller"] = "build"

\* pid_file whose flag stays as it was when chmod is None.
pid_file_keeps_flag(d, path, chmod) ==
    [d EXCEPT !.pid_file = Some(path), !.pid_num = None,
              !.chown_pid_file = IF IsSome(chmod) THEN Unwrap(chmod)
                                                  ELSE d.chown_pid_file]

\* pid_file(mut self, path, chmod): self.pid_file = Some(path);
\* self.chown_pid_file = chmod.unwrap_or(false); self
pid_file(d, path, chmod) ==
    [d EXCEPT !.pid_file = Some(path), !.pid_num = None,
              !.chown_pid_file = IF IsSome(chmod) THEN Unwrap(chmod) ELSE FALSE]

ChmodValues == {None, Some(TRUE), Some(FALSE)}

\* Daemon::pid_file(path, chmod)
SetPidFile ==
    /\ Building
    /\ \E chmod \in ChmodValues : cfg' = pid_file(cfg, PidPath, chmod)
    /\ UNCHANGED <<creds, accounts, out, impl, os, pc, ret, log, fds, umaskv, pidfile>>

\* Daemon::work_dir(path)
SetWorkDir ==
    /\ Building
    /\ cfg' = [cfg EXCEPT !.chdir = "."]
    /\ UNCHANGED <<creds, accounts, out, impl, os, pc, ret, log, fds, umaskv, pidfile>>

\* Daemon::user(user)
SetUser ==
    /\ Building
    /\ cfg' = [cfg EXCEPT !.user = Some(TheUser)]
    /\ UNCHANGED <<creds, accounts, out, impl, os, pc, ret, log, fds, umaskv, pidfile>>

\* Daemon::group(group)
SetGroup ==
    /\ Building
    /\ cfg' = [cfg EXCEPT !.group = Some(TheGroup)]
    /\ UNCHANGED <<creds, accounts, out, impl, os, pc, ret, log, fds, umaskv, pidfile>>

\* Daemon::umask(mask)
SetUmask ==
    /\ Building
    /\ \E mask \in UmaskValues : cfg' = [cfg EXCEPT !.umask = mask]
    /\ UNCHANGED <<creds, accounts, out, impl, os, pc, ret, log, fds, umaskv, pidfile>>

\* File::create(..) in the calling process, then Daemon::stdin / stdout /
\* stderr(file): the File holds the descriptor the open returned.
SetStream(stream, file) ==
    LET o == SysOpen(fds["caller"], file, FALSE) IN
    /\ Building
    /\ cfg[stream].kind = "Devnull"
    /\ o.ok
    /\ fds' = [fds EXCEPT !["caller"] = o.f]
    /\ cfg' = [cfg EXCEPT ![stream] = RedirectToFile(o.fd, file)]
    /\ UNCHANGED <<creds, accounts, out, impl, os, pc, ret, log, umaskv, pidfile>>

\* Daemon::stdout(stdio) with a File
SetStdout == SetStream("stdout", "file_out")

\* Daemon::name(name): daemon.rs only
SetName ==
    /\ Building
    /\ impl = "daemon"
    /\ \E n \in NameValues : cfg' = [cfg EXCEPT !.name = Some(n)]
    /\ UNCHANGED <<creds, accounts, out, impl, os, pc, ret, log, fds, umaskv, pidfile>>

\* Daemon::setup_pre_fork_hook, setup_post_fork_parent_hook and
\* setup_post_fork_child_hook: daemon.rs only
SetHook ==
    /\ Building
    /\ impl = "daemon"
    /\ \E h \in {"before_fork_hook", "after_fork_parent_hook",
                 "after_fork_child_hook"} :
          cfg' = [cfg EXCEPT ![h] = TRUE]
    /\ UNCHANGED <<creds, accounts, out, impl, os, pc, ret, log, fds, umaskv, pidfile>>

\* The context handed to setup_post_init_hook (Option<&dyn Any>).
HookDataValues == {None, Some(7)}

\* Daemon::setup_post_init_hook(hook, data): daemon.rs only
SetPostInitHook ==
    /\ Building
    /\ impl = "daemon"
    /\ \E data \in HookDataValues :
          cfg' = [cfg EXCEPT !.after_init_hook = TRUE,
                             !.after_init_hook_data = data]
    /\ UNCHANGED <<creds, accounts, out, impl, os, pc, ret, log, fds, umaskv, pidfile>>

\* No file at the pid file path.
NoFile == [exists |-> FALSE, content |-> <<>>, uid |-> 0, gid |-> 0]

\* The records of the account database: name and id of each user and group.
StdAccounts ==
    [passwd |-> {[name |-> "root", id |-> 0], [name |-> "daemon", id |-> 1]},
     group |-> {[name |-> "root", id |-> 0], [name |-> "daemon", id |-> 2]}]

\* No function of the crate has been called directly.
NoOut == [call |-> "none"]

\* The descriptors of a process started from a terminal: 0, 1, 2 open on it.
StdFds == [i \in 0..MaxFd |-> IF i <= 2 THEN "tty" ELSE "closed"]

\* The identity of a process run by root, and of a process not yet forked.
RootCreds == [uid |-> 0, gid |-> 0, groups |-> "root"]
NoCreds == [uid |-> -1, gid |-> -1, groups |-> ""]

\* A fresh Daemon in a process that has not called start().
Fresh ==
    /\ cfg = NewDaemon
    /\ pc = [p \in Procs |-> IF p = "caller" THEN "build" ELSE "unborn"]
    /\ ret = [p \in Procs |-> "none"]
    /\ log = <<>>
    /\ umaskv = [p \in Procs |-> IF p = "caller" THEN 18 ELSE -1]
    /\ creds = [p \in Procs |-> IF p = "caller" THEN RootCreds ELSE NoCreds]

Init ==
    /\ impl \in {"daemon", "lib"}
    /\ os \in {"linux", "macos"}
    /\ Fresh
    /\ fds = [p \in Procs |-> IF p = "caller" THEN StdFds
                                               ELSE [i \in 0..MaxFd |-> "unborn"]]
    /\ pidfile = NoFile
    /\ accounts = StdAccounts
    /\ out = NoOut

(***************************************************************************)
(* Daemon::start: the order of its steps.                                  *)
(***************************************************************************)

\* DaemonOrder with setuid moved before setgid.
DaemonOrderSetuidFirst ==
    <<"before_fork_hook", "fork", "redirect_stdio", "after_fork_child_hook",
      "validate", "set_proc_name", "umask", "setsid", "chdir1", "write_pid",
      "lookup_user", "chown", "setuid", "setgid", "initgroups", "chdir2",
      "finish">>

\* DaemonOrder with the chown of the pid file moved after setuid.
DaemonOrderChownLast ==
    <<"before_fork_hook", "fork", "redirect_stdio", "after_fork_child_hook",
      "validate", "set_proc_name", "umask", "setsid", "chdir1", "write_pid",
      "lookup_user", "setgid", "initgroups", "setuid", "chown", "chdir2",
      "finish">>

\* DaemonOrder without the early chdir.
DaemonOrderOneChdir ==
    <<"before_fork_hook", "fork", "redirect_stdio", "after_fork_child_hook",
      "validate", "set_proc_name", "umask", "setsid", "write_pid",
      "lookup_user", "chown", "setgid", "initgroups", "setuid", "chdir2",
      "finish">>

\* DaemonOrder with the pre-fork hook called after the fork.
DaemonOrderHookAfterFork ==
    <<"fork", "before_fork_hook", "redirect_stdio", "after_fork_child_hook",
      "validate", "set_proc_name", "umask", "setsid", "chdir1", "write_pid",
      "lookup_user", "chown", "setgid", "initgroups", "setuid", "chdir2",
      "finish">>

\* DaemonOrder with the post-fork-child hook called before the redirection.
DaemonOrderChildHookFirst ==
    <<"before_fork_hook", "fork", "after_fork_child_hook", "redirect_stdio",
      "validate", "set_proc_name", "umask", "setsid", "chdir1", "write_pid",
      "lookup_user", "chown", "setgid", "initgroups", "setuid", "chdir2",
      "finish">>

\* DaemonOrder with the new session created before the umask is applied.
DaemonOrderSessionFirst ==
    <<"before_fork_hook", "fork", "redirect_stdio", "after_fork_child_hook",
      "validate", "set_proc_name", "setsid", "umask", "chdir1", "write_pid",
      "lookup_user", "chown", "setgid", "initgroups", "setuid", "chdir2",
      "finish">>

\* The steps of start() in daemon.rs, in program order.
DaemonOrder ==
    <<"before_fork_hook", "fork", "redirect_stdio", "after_fork_child_hook",
      "validate", "set_proc_name", "umask", "setsid", "chdir1", "write_pid",
      "lookup_user", "chown", "setgid", "initgroups", "setuid", "chdir2",
      "finish">>

\* The steps of start() in lib.rs, in program order.
LibOrder ==
    <<"redirect_stdio", "validate", "fork", "umask", "setsid", "chdir1",
      "write_pid", "lookup_user", "chown", "setgid", "initgroups", "setuid",
      "chdir2", "finish">>

Order == IF impl = "daemon" THEN DaemonOrder ELSE LibOrder

IndexOf(seq, s) == CHOOSE i \in 1..Len(seq) : seq[i] = s

\* A validation that is followed by itself: start() goes round it.
AfterOrValidateAgain(s) ==
    IF s = "validate" THEN "validate" ELSE Order[IndexOf(Order, s) + 1]

\* The step that follows step s.
After(s) == Order[IndexOf(Order, s) + 1]

\* let parent_pid = getpid(), taken on entry, by the calling process.
parent_pid == Pid("caller")

\* One call record of the log: n holds the numeric arguments, s the path or name.
Call(op, p, ok, n, s) == [op |-> op, by |-> p, ok |-> ok, n |-> n, s |-> s]

\* Continue with the step after s.
Goto(p, s) ==
    /\ pc' = [pc EXCEPT ![p] = After(s)]
    /\ UNCHANGED ret

\* Return that records the result and stays at the step, which runs again.
ReturnAndRetry(p, e) ==
    /\ pc' = pc
    /\ ret' = [ret EXCEPT ![p] = e]

\* return Err(e) / return Ok(()): start() is left, nothing else runs in p.
Return(p, e) ==
    /\ pc' = [pc EXCEPT ![p] = "returned"]
    /\ ret' = [ret EXCEPT ![p] = e]

\* start(self): entry, lines 172-180 (has_pid_file, pid_file_path).
Start ==
    /\ pc["caller"] = "build"
    /\ pc' = [pc EXCEPT !["caller"] = Order[1]]
    /\ UNCHANGED <<creds, accounts, out, impl, os, cfg, ret, log, fds, umaskv, pidfile>>

has_pid_file == IsSome(cfg.pid_file)

\* if let Some(hook) = self.before_fork_hook { hook(parent_pid.as_raw()) }
BeforeForkHook(p) ==
    /\ pc[p] = "before_fork_hook"
    /\ log' = IF cfg.before_fork_hook
                THEN Append(log, Call("before_fork_hook", p, TRUE, <<parent_pid>>, ""))
                ELSE log
    /\ Goto(p, "before_fork_hook")
    /\ UNCHANGED <<creds, accounts, out, impl, os, cfg, fds, umaskv, pidfile>>

\* ParentBranch with a hook that returns and no exit: the parent goes on.
ParentBranchFallsThrough(cpid) ==
    [pc |-> After("fork"),
     call |-> Call("after_fork_parent_hook", "caller", TRUE, <<parent_pid, cpid>>, "")]

\* The Parent arm of the fork match: the hook (fn(..) -> !, it never returns)
\* or exit(0). Gives the parent's next position and the call it makes.
ParentBranch(cpid) ==
    IF cfg.after_fork_parent_hook
      THEN [pc |-> "in_parent_hook",
            call |-> Call("after_fork_parent_hook", "caller", TRUE, <<parent_pid, cpid>>, "")]
      ELSE [pc |-> "exited",
            call |-> Call("exit", "caller", TRUE, <<0>>, "")]

\* match fork() { Parent => ..., Child => ..., Err(_) => return Err(Fork) }
Fork(p) ==
    /\ pc[p] = "fork"
    /\ p = "caller"
    /\ \/ /\ log' = Append(log, Call("fork", p, FALSE, <<>>, ""))
          /\ Return(p, "Fork")
          /\ UNCHANGED <<fds, umaskv, creds>>
       \/ LET pb == ParentBranch(ChildPid) IN
          /\ log' = log \o <<Call("fork", p, TRUE, <<ChildPid>>, ""), pb.call>>
          /\ pc' = [pc EXCEPT ![p] = pb.pc, !["child"] = After("fork")]
          /\ fds' = [fds EXCEPT !["child"] = fds[p]]
          /\ umaskv' = [umaskv EXCEPT !["child"] = umaskv[p]]
          /\ creds' = [creds EXCEPT !["child"] = creds[p]]
          /\ UNCHANGED ret
    /\ UNCHANGED <<accounts, out, impl, os, cfg, pidfile>>

(***************************************************************************)
(* redirect_stdio (stdio.rs; lib.rs holds the same function).              *)
(***************************************************************************)

\* What may go wrong in one call besides a bad descriptor: nothing, the
\* open of /dev/null, or the close or the dup2 of stream 0, 1 or 2.
RedirectOutcomes ==
    {[at |-> 3, kind |-> "none"], [at |-> -1, kind |-> "open"]}
        \cup [at : 0..2, kind : {"close", "dup2"}]

\* proc_stream that goes on with the stream after an earlier one has failed.
ProcStreamKeepsGoing(r, fd, stdio, oc) ==
    LET c == SysClose(r.f, fd, oc.at = fd /\ oc.kind = "close")
        src == IF stdio.kind = "Devnull" THEN r.devnull_fd ELSE stdio.raw_fd
        d == SysDup2(c.f, src, fd, oc.at = fd /\ oc.kind = "dup2")
    IN  IF ~c.ok THEN [r EXCEPT !.err = "CloseFp"]
        ELSE IF ~d.ok THEN [r EXCEPT !.f = c.f, !.err = "RedirectStream"]
        ELSE [r EXCEPT !.f = d.f]

\* proc_stream(fd, stdio): close(fd), then dup2 of devnull_fd or of the
\* file's raw descriptor onto fd. r holds the descriptor table f, devnull_fd
\* and the error so far; with an error set the ? has left the function.
ProcStream(r, fd, stdio, oc) ==
    IF r.err # "" THEN r
    ELSE LET c == SysClose(r.f, fd, oc.at = fd /\ oc.kind = "close")
             src == IF stdio.kind = "Devnull" THEN r.devnull_fd ELSE stdio.raw_fd
             d == SysDup2(c.f, src, fd, oc.at = fd /\ oc.kind = "dup2")
         IN  IF ~c.ok THEN [r EXCEPT !.err = "CloseFp"]
             ELSE IF ~d.ok THEN [r EXCEPT !.f = c.f, !.err = "RedirectStream"]
             ELSE [r EXCEPT !.f = d.f]

\* redirect_stdio(stdin, stdout, stderr) on descriptor table f.
RedirectStdio(f, stdin, stdout, stderr, oc) ==
    LET o == SysOpen(f, "devnull", oc.kind = "open") IN
    IF ~o.ok THEN [f |-> f, devnull_fd |-> -1, err |-> "OpenDevNull"]
    ELSE \* r0, r1, r2: the state after stdin, stdout, stderr, each computed once
         CHOOSE r2 \in
             {ProcStream(r1, 2, stderr, oc) :
                r1 \in {ProcStream(r0, 1, stdout, oc) :
                   r0 \in {ProcStream([f |-> o.f, devnull_fd |-> o.fd, err |-> ""],
                                      0, stdin, oc)}}} : TRUE

\* redirect_stdio(&self.stdin, &self.stdout, &self.stderr)?
RedirectStep(p) ==
    /\ pc[p] = "redirect_stdio"
    /\ \E oc \in RedirectOutcomes :
          LET r == RedirectStdio(fds[p], cfg.stdin, cfg.stdout, cfg.stderr, oc) IN
          /\ fds' = [fds EXCEPT ![p] = r.f]
          /\ log' = Append(log, Call("redirect_stdio", p, r.err = "", <<>>, ""))
          /\ IF r.err = "" THEN Goto(p, "redirect_stdio") ELSE Return(p, r.err)
    /\ UNCHANGED <<creds, accounts, out, impl, os, cfg, umaskv, pidfile>>

(***************************************************************************)
(* Daemon::start, after the fork.                                          *)
(***************************************************************************)

\* pid = getpid(); if let Some(hook) = self.after_fork_child_hook { hook(..) }
AfterForkChildHook(p) ==
    /\ pc[p] = "after_fork_child_hook"
    /\ log' = IF cfg.after_fork_child_hook
                THEN Append(log, Call("after_fork_child_hook", p, TRUE,
                                      <<parent_pid, Pid(p)>>, ""))
                ELSE log
    /\ Goto(p, "after_fork_child_hook")
    /\ UNCHANGED <<creds, accounts, out, impl, os, cfg, fds, umaskv, pidfile>>

\* The two tests of user, group and chown_pid_file.
ConfigInvalid ==
    \/ cfg.chown_pid_file /\ (IsNone(cfg.user) \/ IsNone(cfg.group))
    \/ (IsSome(cfg.user) \/ IsSome(cfg.group))
          /\ (IsNone(cfg.user) \/ IsNone(cfg.group))

Validate(p) ==
    /\ pc[p] = "validate"
    /\ IF ConfigInvalid THEN Return(p, "InvalidUserGroupPair")
                        ELSE Goto(p, "validate")
    /\ UNCHANGED <<creds, accounts, out, impl, os, cfg, log, fds, umaskv, pidfile>>

\* A string with an interior NUL: CString::new fails on it.
HasNul(str) == str = "da\\0emon"

\* set_proc_name (ffi.rs): prctl on linux, Err(UnsupportedOnOS) elsewhere.
SetProcNameResults(name) ==
    IF os # "linux" THEN {"UnsupportedOnOS"}
    ELSE IF HasNul(name) THEN {"InvalidProcName"}
    ELSE {"Ok", "SetProcName"}

\* The name taken as the empty name when none was configured.
ProcNameOrEmpty == IF IsSome(cfg.name) THEN cfg.name ELSE Some("")

\* &self.name, the Option the if let tests.
ProcName == cfg.name

\* if let Some(proc_name) = &self.name { set_proc_name(..) }
SetProcName(p) ==
    /\ pc[p] = "set_proc_name"
    /\ IF IsSome(ProcName)
         THEN \E r \in SetProcNameResults(Unwrap(ProcName)) :
                 /\ log' = Append(log, Call("set_proc_name", p, r = "Ok", <<>>,
                                            Unwrap(ProcName)))
                 /\ IF r = "Ok" THEN Goto(p, "set_proc_name") ELSE Return(p, r)
         ELSE /\ Goto(p, "set_proc_name")
              /\ UNCHANGED log
    /\ UNCHANGED <<creds, accounts, out, impl, os, cfg, fds, umaskv, pidfile>>

\* nix Mode::from_bits: Some when only bits of the mode flags (0o7777) are set.
ModeFromBits(bits) == IF bits \in 0..4095 THEN Some(bits) ELSE None

\* umask(2) keeps the permission bits of its argument.
KernelUmask(mode) == mode % 512

\* let umask_mode = match Mode::from_bits(self.umask as _) {..}; umask(umask_mode)
UmaskStep(p) ==
    /\ pc[p] = "umask"
    /\ LET m == ModeFromBits(cfg.umask) IN
       IF IsNone(m)
         THEN /\ Return(p, "InvalidUmaskBits")
              /\ UNCHANGED <<log, umaskv>>
         ELSE /\ log' = Append(log, Call("umask", p, TRUE, <<Unwrap(m)>>, ""))
              /\ umaskv' = [umaskv EXCEPT ![p] = KernelUmask(Unwrap(m))]
              /\ Goto(p, "umask")
    /\ UNCHANGED <<creds, accounts, out, impl, os, cfg, fds, pidfile>>

\* if let Err(_) = setsid() { return Err(SetSid) }
SetSid(p) ==
    /\ pc[p] = "setsid"
    /\ \E ok \in BOOLEAN :
          /\ log' = Append(log, Call("setsid", p, ok, <<>>, ""))
          /\ IF ok THEN Goto(p, "setsid") ELSE Return(p, "SetSid")
    /\ UNCHANGED <<creds, accounts, out, impl, os, cfg, fds, umaskv, pidfile>>

\* chdir(self.chdir): s names the step, "chdir1" (early) or "chdir2" (final).
Chdir(p, s) ==
    /\ pc[p] = s
    /\ \E ok \in BOOLEAN :
          /\ log' = Append(log, Call("chdir", p, ok, <<>>, cfg.chdir))
          /\ IF ok THEN Goto(p, s) ELSE Return(p, "ChDir")
    /\ UNCHANGED <<creds, accounts, out, impl, os, cfg, fds, umaskv, pidfile>>

(***************************************************************************)
(* The pid file.                                                           *)
(***************************************************************************)

Digits == <<"0", "1", "2", "3", "4", "5", "6", "7", "8", "9">>

\* pid.to_string(): the decimal digits of the pid, most significant first.
RECURSIVE to_string(_)
to_string(n) ==
    IF n < 10 THEN <<Digits[n + 1]>>
    ELSE Append(to_string(n \div 10), Digits[(n % 10) + 1])

\* An open that creates the file and keeps what an existing file holds.
CreateFileKeepsContent(file) == [file EXCEPT !.exists = TRUE]

\* File::create(path): the file is created, or truncated when it exists.
CreateFile(file) == [file EXCEPT !.exists = TRUE, !.content = <<>>]

\* write of bytes at offset 0 of a file holding content.
WriteAtStart(content, bytes) ==
    bytes \o SubSeq(content, Len(bytes) + 1, Len(content))

\* What may happen: all is written, File::create fails, or write_all fails
\* after w bytes of the text went out.
WritePidOutcomes == {"ok", "create_fails", "write_fails"}

\* match File::create(pid_file) { Ok(mut fp) => fp.write_all(pid.to_string()), .. }
\* Both failures give WritePid.
WritePidFile(file, pid, oc, w) ==
    IF oc = "create_fails" THEN [file |-> file, err |-> "WritePid"]
    ELSE LET fp == CreateFile(file)
             text == to_string(pid)
             sent == IF oc = "ok" THEN text ELSE SubSeq(text, 1, w)
         IN  [file |-> [fp EXCEPT !.content = WriteAtStart(fp.content, sent)],
              err |-> IF oc = "ok" THEN "" ELSE "WritePid"]

\* The pid taken from the process that called start().
PidToWriteParent(p) == parent_pid

\* pid = getpid(), in the process that reached this line.
PidToWrite(p) == Pid(p)

\* pid = getpid(); if has_pid_file { File::create(..), write_all(pid.to_string()) }
WritePid(p) ==
    /\ pc[p] = "write_pid"
    /\ IF has_pid_file
         THEN \E oc \in WritePidOutcomes, w \in 0..(Len(to_string(PidToWrite(p))) - 1) :
                 LET r == WritePidFile(pidfile, PidToWrite(p), oc, w) IN
                 /\ oc = "write_fails" \/ w = 0
                 /\ log' = Append(log, Call("write_pid", p, oc = "ok",
                                            <<PidToWrite(p)>>, Unwrap(cfg.pid_file)))
                 /\ pidfile' = r.file
                 /\ IF r.err = "" THEN Goto(p, "write_pid") ELSE Return(p, r.err)
         ELSE /\ Goto(p, "write_pid")
              /\ UNCHANGED <<log, pidfile>>
    /\ UNCHANGED <<creds, accounts, out, impl, os, cfg, fds, umaskv>>

\* The account database: the name getpwuid holds for a uid.
PasswdName(uid) == IF uid = 0 THEN "root" ELSE "daemon"

\* The name the identity was built with, in place of the one looked up.
UnameAsGiven(user) == user.name

\* let uname = lookup_record_by_id(user.as_raw()).pw_name: the name that
\* initgroups is given.
UnameOf(user) == PasswdName(user.id)

\* A start() that skips the privilege-drop block whatever is configured.
DropsPrivilegesNever == FALSE

DropsPrivileges == IsSome(cfg.user) /\ IsSome(cfg.group)

\* if self.user.is_some() && self.group.is_some() { .. lookup_record_by_id(uid) .. }
LookupUser(p) ==
    /\ pc[p] = "lookup_user"
    /\ IF DropsPrivileges
         THEN \E ok \in BOOLEAN :
                 /\ log' = Append(log, Call("lookup_record_by_id", p, ok,
                                            <<Unwrap(cfg.user).id>>,
                                            IF ok THEN PasswdName(Unwrap(cfg.user).id) ELSE ""))
                 /\ IF ok THEN Goto(p, "lookup_user") ELSE Return(p, "InvalidUser")
         ELSE /\ pc' = [pc EXCEPT ![p] = "chdir2"]
              /\ UNCHANGED <<log, ret>>
    /\ UNCHANGED <<creds, accounts, out, impl, os, cfg, fds, umaskv, pidfile>>

\* A chown whose failure is answered by removing the file.
ChownFileOrRemove(file, uid, gid, ok) ==
    IF ok THEN [file EXCEPT !.uid = uid, !.gid = gid] ELSE NoFile

\* chown(2) on the file: owner and group change, the content stays; a
\* failed call leaves the file as it is.
ChownFile(file, uid, gid, ok) ==
    IF ok THEN [file EXCEPT !.uid = uid, !.gid = gid] ELSE file

\* if self.chown_pid_file && has_pid_file { chown(&pid_file_path, user, gr) }
Chown(p) ==
    /\ pc[p] = "chown"
    /\ IF cfg.chown_pid_file /\ has_pid_file
         THEN \E ok \in BOOLEAN :
                 /\ log' = Append(log, Call("chown", p, ok,
                                            <<Unwrap(cfg.user).id, Unwrap(cfg.group).id>>,
                                            Unwrap(cfg.pid_file)))
                 /\ pidfile' = ChownFile(pidfile, Unwrap(cfg.user).id,
                                         Unwrap(cfg.group).id, ok)
                 /\ IF ok THEN Goto(p, "chown") ELSE Return(p, "ChownPid")
         ELSE /\ Goto(p, "chown")
              /\ UNCHANGED <<log, pidfile>>
    /\ UNCHANGED <<creds, accounts, out, impl, os, cfg, fds, umaskv>>

\* A failed setuid after which the process is given back the identity it
\* had on entry.
CredsAfterSetuidRestored(c, uid, ok) ==
    IF ok THEN [c EXCEPT !.uid = uid] ELSE RootCreds

\* setgid(2), initgroups(3), setuid(2) on the identity c of a process: a
\* failed call leaves c as it is.
CredsAfterSetgid(c, gid, ok) == IF ok THEN [c EXCEPT !.gid = gid] ELSE c
CredsAfterInitgroups(c, uname, ok) == IF ok THEN [c EXCEPT !.groups = uname] ELSE c
CredsAfterSetuid(c, uid, ok) == IF ok THEN [c EXCEPT !.uid = uid] ELSE c

\* match setgid(gr) { Err(_) => return Err(SetGid) }
SetGid(p) ==
    /\ pc[p] = "setgid"
    /\ \E ok \in BOOLEAN :
          /\ log' = Append(log, Call("setgid", p, ok, <<Unwrap(cfg.group).id>>, ""))
          /\ creds' = [creds EXCEPT
                         ![p] = CredsAfterSetgid(creds[p], Unwrap(cfg.group).id, ok)]
          /\ IF ok THEN Goto(p, "setgid") ELSE Return(p, "SetGid")
    /\ UNCHANGED <<accounts, out, impl, os, cfg, fds, umaskv, pidfile>>

\* #[cfg(not(target_os = "macos"))] { CString::new(uname); initgroups(&u_cstr, gr) }
InitGroups(p) ==
    /\ pc[p] = "initgroups"
    /\ LET uname == UnameOf(Unwrap(cfg.user)) IN
       IF os = "macos"
         THEN /\ Goto(p, "initgroups")
              /\ UNCHANGED <<log, creds>>
         ELSE IF HasNul(uname)
                THEN /\ Return(p, "SetGid")
                     /\ UNCHANGED <<log, creds>>
                ELSE \E ok \in BOOLEAN :
                        /\ log' = Append(log, Call("initgroups", p, ok,
                                                   <<Unwrap(cfg.group).id>>, uname))
                        /\ creds' = [creds EXCEPT
                                       ![p] = CredsAfterInitgroups(creds[p], uname, ok)]
                        /\ IF ok THEN Goto(p, "initgroups") ELSE Return(p, "InitGroups")
    /\ UNCHANGED <<accounts, out, impl, os, cfg, fds, umaskv, pidfile>>

\* match setuid(user) { Err(_) => return Err(SetUid) }
SetUid(p) ==
    /\ pc[p] = "setuid"
    /\ \E ok \in BOOLEAN :
          /\ log' = Append(log, Call("setuid", p, ok, <<Unwrap(cfg.user).id>>, ""))
          /\ creds' = [creds EXCEPT
                         ![p] = CredsAfterSetuid(creds[p], Unwrap(cfg.user).id, ok)]
          /\ IF ok THEN Goto(p, "setuid") ELSE Return(p, "SetUid")
    /\ UNCHANGED <<accounts, out, impl, os, cfg, fds, umaskv, pidfile>>

\* The post-init hook called with no context, whatever was configured.
PostInitHookArgNone == None

\* The argument of the post-init hook: self.after_init_hook_data.
PostInitHookArg == cfg.after_init_hook_data

\* if let Some(hook) = self.after_init_hook { hook(data); Ok(()) } else { Ok(()) }
Finish(p) ==
    /\ pc[p] = "finish"
    /\ log' = IF cfg.after_init_hook
                THEN Append(log, Call("after_init_hook", p, TRUE, PostInitHookArg, ""))
                ELSE log
    /\ Return(p, "Ok")
    /\ UNCHANGED <<creds, accounts, out, impl, os, cfg, fds, umaskv, pidfile>>

Next ==
    \/ SetPidFile \/ SetWorkDir \/ SetUser \/ SetGroup \/ SetUmask \/ SetStdout
    \/ SetName \/ SetHook \/ SetPostInitHook
    \/ Start
    \/ \E p \in Procs :
          \/ BeforeForkHook(p) \/ Fork(p) \/ RedirectStep(p)
          \/ AfterForkChildHook(p) \/ Validate(p) \/ SetProcName(p)
          \/ UmaskStep(p) \/ SetSid(p) \/ Chdir(p, "chdir1") \/ WritePid(p)
          \/ LookupUser(p) \/ Chown(p) \/ SetGid(p) \/ InitGroups(p)
          \/ SetUid(p) \/ Chdir(p, "chdir2") \/ Finish(p)

Spec == Init /\ [][Next]_vars

(***************************************************************************)
(* The pid file block of start() on its own: any pid, and any file already *)
(* at the path.                                                            *)
(***************************************************************************)

\* What the path may hold before: nothing, an empty file, or an earlier text.
StalePidFiles ==
    {NoFile} \cup
    {[exists |-> TRUE, content |-> c, uid |-> 0, gid |-> 0] :
        c \in {<<>>, <<"7">>, <<"1", "0", "1", "\n">>,
               <<"9", "9", "9", "9", "9", "9", "9", "9">>}}

\* The pids tried (pid_t values, up to the largest Linux allows, 2^22).
PidValues == {1, 9, 10, 101, 32768, 4194304}

InitPidFile ==
    /\ impl = "daemon"
    /\ os = "linux"
    /\ Fresh
    /\ fds = [p \in Procs |-> StdFds]
    /\ pidfile \in StalePidFiles
    /\ accounts = StdAccounts
    /\ out = NoOut

\* The block of lines 242-253 with pid, on the file at the path.
WritePidFileCall ==
    /\ out = NoOut
    /\ \E pid \in PidValues :
          \E oc \in WritePidOutcomes, w \in 0..(Len(to_string(pid)) - 1) :
             LET r == WritePidFile(pidfile, pid, oc, w) IN
             /\ oc = "write_fails" \/ w = 0
             /\ pidfile' = r.file
             /\ out' = [call |-> "write_pid_file", before |-> pidfile, pid |-> pid,
                         oc |-> oc, err |-> r.err]
    /\ UNCHANGED <<creds, accounts, impl, os, cfg, pc, ret, log, fds, umaskv>>

NextPidFile == WritePidFileCall

SpecPidFile == InitPidFile /\ [][NextPidFile]_vars

(***************************************************************************)
(* redirect_stdio on its own: any of the three streams given a File, with  *)
(* descriptors 0-2 open or closed when the files are opened and when the   *)
(* function is called.                                                     *)
(***************************************************************************)

InitRedirect ==
    /\ impl = "daemon"
    /\ os = "linux"
    /\ Fresh
    /\ fds = [p \in Procs |-> IF p = "caller" THEN StdFds
                                               ELSE [i \in 0..MaxFd |-> "unborn"]]
    /\ pidfile = NoFile
    /\ accounts = StdAccounts
    /\ out = NoOut

\* The process has standard descriptor fd closed (started without it, or
\* closed it itself).
CloseStd ==
    /\ Building
    /\ \E fd \in 0..2 :
          /\ fds["caller"][fd] = "tty"
          /\ fds' = [fds EXCEPT !["caller"] = SysClose(fds["caller"], fd, FALSE).f]
    /\ UNCHANGED <<creds, accounts, out, impl, os, cfg, pc, ret, log, umaskv, pidfile>>

\* Daemon::stdin(stdio) with a File
SetStdin == SetStream("stdin", "file_in")

\* Daemon::stderr(stdio) with a File
SetStderr == SetStream("stderr", "file_err")

\* redirect_stdio(&stdin, &stdout, &stderr), called in the process itself.
RedirectCall ==
    /\ Building
    /\ \E oc \in RedirectOutcomes :
          LET r == RedirectStdio(fds["caller"], cfg.stdin, cfg.stdout, cfg.stderr, oc) IN
          /\ fds' = [fds EXCEPT !["caller"] = r.f]
          /\ out' = [call |-> "redirect_stdio", before |-> fds["caller"],
                      oc |-> oc, err |-> r.err, devnull_fd |-> r.devnull_fd]
    /\ pc' = [pc EXCEPT !["caller"] = "called"]
    /\ UNCHANGED <<creds, accounts, impl, os, cfg, ret, log, umaskv, pidfile>>

\* process.rs: close_and_dub(fd_old, fd_new): close(fd_old), then
\* dup2(fd_old, fd_new); either failure is returned as the errno.
CloseAndDub(f, fd_old, fd_new, close_fails, dup2_fails) ==
    LET c == SysClose(f, fd_old, close_fails)
        d == SysDup2(c.f, fd_old, fd_new, dup2_fails)
    IN  IF ~c.ok THEN [f |-> f, err |-> "errno of close"]
        ELSE IF ~d.ok THEN [f |-> c.f, err |-> "errno of dup2"]
        ELSE [f |-> d.f, err |-> ""]

\* process.rs: redirect_stdio(stdin, stdout, stderr) on descriptor table f:
\* proc_stream is close_and_dub(fd, devnull_fd) or close_and_dub(fd, raw fd
\* of the file), for 0, 1, 2, each followed by ?.
ProcessRedirectStdio(f, stdin, stdout, stderr, oc) ==
    LET o == SysOpen(f, "devnull", oc.kind = "open")
        target(stdio) == IF stdio.kind = "Devnull" THEN o.fd ELSE stdio.raw_fd
        step(r, fd, stdio) ==
            IF r.err # "" THEN r
            ELSE CloseAndDub(r.f, fd, target(stdio),
                             oc.at = fd /\ oc.kind = "close",
                             oc.at = fd /\ oc.kind = "dup2")
    IN  IF ~o.ok THEN [f |-> f, err |-> "errno of open"]
        ELSE step(step(step([f |-> o.f, err |-> ""], 0, stdin), 1, stdout), 2, stderr)

\* process.rs: redirect_stdio(&stdin, &stdout, &stderr), called in the
\* process itself.
ProcessRedirectCall ==
    /\ Building
    /\ \E oc \in RedirectOutcomes :
          LET r == ProcessRedirectStdio(fds["caller"], cfg.stdin, cfg.stdout,
                                        cfg.stderr, oc) IN
          /\ fds' = [fds EXCEPT !["caller"] = r.f]
          /\ out' = [call |-> "process::redirect_stdio", before |-> fds["caller"],
                      oc |-> oc, err |-> r.err]
    /\ pc' = [pc EXCEPT !["caller"] = "called"]
    /\ UNCHANGED <<creds, accounts, impl, os, cfg, ret, log, umaskv, pidfile>>

NextRedirect ==
    \/ CloseStd \/ SetStdin \/ SetStdout \/ SetStderr
    \/ RedirectCall \/ ProcessRedirectCall

SpecRedirect == InitRedirect /\ [][NextRedirect]_vars

(***************************************************************************)
(* The pid target given as a number (PidType::Num): the builder's pid_num  *)
(* and the path made from the number, in front of start().                 *)
(***************************************************************************)

\* The path made from a numeric pid target without the extension.
PidNumPathNoExt(n) == <<"<runtime-dir>/">> \o to_string(n)

\* The path made from a numeric pid target n: "<runtime-dir>/<n>.pid".
PidNumPath(n) == <<"<runtime-dir>/">> \o to_string(n) \o <<".pid">>

\* The numbers handed to pid_num.
PidNums == {0, 42, 1000}

\* pid_num(id, chown): the pid target is PidType::Num(id).
SetPidNum ==
    /\ Building
    /\ \E n \in PidNums, chown \in BOOLEAN :
          cfg' = [cfg EXCEPT !.pid_file = Some(PidNumPath(n)), !.pid_num = Some(n),
                             !.chown_pid_file = chown]
    /\ UNCHANGED <<creds, accounts, out, impl, os, pc, ret, log, fds, umaskv, pidfile>>

\* start() behind a builder that has pid_num.
NextPidNum ==
    \/ SetPidFile \/ SetPidNum \/ SetUser \/ SetGroup
    \/ Start
    \/ \E p \in Procs :
          \/ BeforeForkHook(p) \/ Fork(p) \/ RedirectStep(p)
          \/ AfterForkChildHook(p) \/ Validate(p) \/ SetProcName(p)
          \/ UmaskStep(p) \/ SetSid(p) \/ Chdir(p, "chdir1") \/ WritePid(p)
          \/ LookupUser(p) \/ Chown(p) \/ SetGid(p) \/ InitGroups(p)
          \/ SetUid(p) \/ Chdir(p, "chdir2") \/ Finish(p)

SpecPidNum == Init /\ [][NextPidNum]_vars

(***************************************************************************)
(* Resolving users and groups (lib.rs, group.rs) over the account          *)
(* database (ffi.rs).                                                      *)
(***************************************************************************)

Ok(v) == [ok |-> TRUE, val |-> v, err |-> ""]
Err(e) == [ok |-> FALSE, val |-> [id |-> -1, name |-> ""], err |-> e]

\* A lookup by name that takes a record of db whatever its name.
RecordOfAnyName(db, name) == CHOOSE r \in db : TRUE

\* The record of db (a set of [name, id]) with this name, or this id.
RecordNamed(db, name) == CHOOSE r \in db : r.name = name

RecordWithId(db, id) == CHOOSE r \in db : r.id = id

\* GroupRecord::get_record_by_name: CString::new, then getgrnam.
GroupRecordByName(name) ==
    IF HasNul(name) THEN Err("InvalidCstr")
    ELSE IF \E r \in accounts.group : r.name = name
           THEN Ok(RecordNamed(accounts.group, name))
           ELSE Err("GetGrRecord")

\* GroupRecord::get_record_by_id: getgrgid.
GroupRecordById(gid) ==
    IF \E r \in accounts.group : r.id = gid
      THEN Ok(RecordWithId(accounts.group, gid))
      ELSE Err("GetGrRecord")

\* PasswdRecord::get_record_by_name: CString::new, then getpwnam.
PasswdRecordByName(name) ==
    IF HasNul(name) THEN Err("InvalidCstr")
    ELSE IF \E r \in accounts.passwd : r.name = name
           THEN Ok(RecordNamed(accounts.passwd, name))
           ELSE Err("GetPasswdRecord")

\* PasswdRecord::get_record_by_id: getpwuid.
PasswdRecordById(uid) ==
    IF \E r \in accounts.passwd : r.id = uid
      THEN Ok(RecordWithId(accounts.passwd, uid))
      ELSE Err("GetPasswdRecord")

\* lib.rs: User::try_from(&str) and try_from(String)
UserTryFromStr(uname) ==
    LET record == PasswdRecordByName(uname) IN
    IF record.ok THEN Ok([id |-> record.val.id, name |-> ""])
                 ELSE Err("InvalidUser")

\* lib.rs: User::from(u32)
UserFromU32(uid) == Ok([id |-> uid, name |-> ""])

\* lib.rs: Group::try_from(&str) and try_from(String)
LibGroupTryFromStr(gname) ==
    LET record == GroupRecordByName(gname) IN
    IF record.ok THEN Ok([id |-> record.val.id, name |-> ""])
                 ELSE Err("InvalidGroup")

\* lib.rs: Group::from(u32)
LibGroupFromU32(gid) == Ok([id |-> gid, name |-> ""])

\* group.rs: Group::try_from(&str) and try_from(&String)
GroupTryFromStr(gname) ==
    LET record == GroupRecordByName(gname) IN
    IF record.ok THEN Ok([id |-> record.val.id, name |-> record.val.name])
                 ELSE Err("InvalidGroup")

\* group.rs: Group::try_from(u32), with ? on the lookup
GroupTryFromU32(gid) ==
    LET record == GroupRecordById(gid) IN
    IF record.ok THEN Ok([id |-> record.val.id, name |-> record.val.name])
                 ELSE record

\* The records the database may hold, and the names and ids asked for.
PasswdRecords ==
    {[name |-> "root", id |-> 0], [name |-> "daemon", id |-> 1],
     [name |-> "nobody", id |-> 7]}
GroupRecords ==
    {[name |-> "root", id |-> 0], [name |-> "daemon", id |-> 2],
     [name |-> "nobody", id |-> 7]}
LookupNames == {"root", "daemon", "ghost", "da\\0emon"}
LookupIds == {0, 1, 2, 7}

InitResolve ==
    /\ impl = "daemon"
    /\ os = "linux"
    /\ Fresh
    /\ fds = [p \in Procs |-> StdFds]
    /\ pidfile = NoFile
    /\ accounts \in [passwd : SUBSET PasswdRecords, group : SUBSET GroupRecords]
    /\ out = NoOut

\* One conversion is called; out keeps what was asked and the result.
Resolved(call, kind, res) ==
    /\ Building
    /\ out' = [call |-> call, kind |-> kind, res |-> res]
    /\ pc' = [pc EXCEPT !["caller"] = "called"]
    /\ UNCHANGED <<creds, accounts, impl, os, cfg, ret, log, fds, umaskv, pidfile>>

UserTryFromStrCall ==
    \E n \in LookupNames : Resolved("User::try_from(str)", "user", UserTryFromStr(n))

UserFromU32Call ==
    \E i \in LookupIds : Resolved("User::from(u32)", "user", UserFromU32(i))

LibGroupTryFromStrCall ==
    \E n \in LookupNames :
        Resolved("lib Group::try_from(str)", "group", LibGroupTryFromStr(n))

LibGroupFromU32Call ==
    \E i \in LookupIds : Resolved("lib Group::from(u32)", "group", LibGroupFromU32(i))

GroupTryFromStrCall ==
    \E n \in LookupNames : Resolved("Group::try_from(str)", "group", GroupTryFromStr(n))

GroupTryFromU32Call ==
    \E i \in LookupIds : Resolved("Group::try_from(u32)", "group", GroupTryFromU32(i))

\* A record is looked up directly, by name or by id (the ffi tests).
LookupCall ==
    /\ Building
    /\ \/ \E n \in LookupNames :
             \/ out' = [call |-> "by_name", kind |-> "passwd", name |-> n,
                         res |-> PasswdRecordByName(n)]
             \/ out' = [call |-> "by_name", kind |-> "group record", name |-> n,
                         res |-> GroupRecordByName(n)]
       \/ \E i \in LookupIds :
             \/ out' = [call |-> "by_id", kind |-> "passwd", id |-> i,
                         res |-> PasswdRecordById(i)]
             \/ out' = [call |-> "by_id", kind |-> "group record", id |-> i,
                         res |-> GroupRecordById(i)]
    /\ pc' = [pc EXCEPT !["caller"] = "called"]
    /\ UNCHANGED <<creds, accounts, impl, os, cfg, ret, log, fds, umaskv, pidfile>>

\* Daemon::new().user(User::try_from(name).unwrap()): lib.rs, the crate's test.
UserFromNameCall ==
    /\ Building
    /\ cfg = NewDaemon
    /\ \E n \in LookupNames :
          LET r == UserTryFromStr(n) IN
          /\ r.ok
          /\ cfg' = [cfg EXCEPT !.user = Some(r.val)]
          /\ out' = [call |-> "Daemon::user", kind |-> "builder", name |-> n, res |-> r]
    /\ pc' = [pc EXCEPT !["caller"] = "called"]
    /\ UNCHANGED <<creds, accounts, impl, os, ret, log, fds, umaskv, pidfile>>

\* Daemon::user(user) with the identity of any account.
SetUserOf ==
    /\ Building
    /\ \E r \in PasswdRecords : cfg' = [cfg EXCEPT !.user = Some([id |-> r.id, name |-> r.name])]
    /\ UNCHANGED <<creds, accounts, out, impl, os, pc, ret, log, fds, umaskv, pidfile>>

\* group_copy_user that takes a missing user for nothing to do.
group_copy_user_or_skip(d) ==
    IF IsSome(d.user)
      THEN LET g == GroupTryFromStr(Unwrap(d.user).name) IN
           IF g.ok THEN Ok([d EXCEPT !.group = Some(g.val)]) ELSE Err(g.err)
      ELSE Ok(d)

\* group_copy_user(mut self) -> Result<Self>:
\* if let Some(user) = &self.user { self.group = Some(Group::try_from(&user.name)?); Ok(self) }
\* else { Err(InvalidUser) }
group_copy_user(d) ==
    IF IsSome(d.user)
      THEN LET g == GroupTryFromStr(Unwrap(d.user).name) IN
           IF g.ok THEN Ok([d EXCEPT !.group = Some(g.val)]) ELSE Err(g.err)
      ELSE Err("InvalidUser")

\* Daemon::group_copy_user() on the builder; on Err the builder is gone.
GroupCopyUserCall ==
    /\ Building
    /\ LET r == group_copy_user(cfg) IN
       /\ cfg' = IF r.ok THEN r.val ELSE cfg
       /\ out' = [call |-> "group_copy_user", kind |-> "builder", before |-> cfg,
                   res |-> IF r.ok THEN [ok |-> TRUE, err |-> ""]
                                   ELSE [ok |-> FALSE, err |-> r.err]]
    /\ pc' = [pc EXCEPT !["caller"] = "called"]
    /\ UNCHANGED <<creds, accounts, impl, os, ret, log, fds, umaskv, pidfile>>

NextResolve ==
    \/ UserTryFromStrCall \/ UserFromU32Call
    \/ LibGroupTryFromStrCall \/ LibGroupFromU32Call
    \/ GroupTryFromStrCall \/ GroupTryFromU32Call
    \/ LookupCall \/ UserFromNameCall
    \/ SetUserOf \/ SetGroup \/ SetPidFile \/ GroupCopyUserCall

SpecResolve == InitResolve /\ [][NextResolve]_vars

(***************************************************************************)
(* Reading the log.                                                        *)
(***************************************************************************)

(***************************************************************************)
(* start() with identities given by name and by number.                    *)
(***************************************************************************)

\* Daemon::user(User::from(uid)): an identity given numerically.
SetUserId ==
    /\ Building
    /\ \E uid \in {r.id : r \in accounts.passwd} :
          cfg' = [cfg EXCEPT !.user = Some(UserFromU32(uid).val)]
    /\ UNCHANGED <<creds, accounts, out, impl, os, pc, ret, log, fds, umaskv, pidfile>>

NextIdentity ==
    \/ SetUser \/ SetUserId \/ SetGroup \/ SetPidFile
    \/ Start
    \/ \E p \in Procs :
          \/ BeforeForkHook(p) \/ Fork(p) \/ RedirectStep(p)
          \/ AfterForkChildHook(p) \/ Validate(p) \/ SetProcName(p)
          \/ UmaskStep(p) \/ SetSid(p) \/ Chdir(p, "chdir1") \/ WritePid(p)
          \/ LookupUser(p) \/ Chown(p) \/ SetGid(p) \/ InitGroups(p)
          \/ SetUid(p) \/ Chdir(p, "chdir2") \/ Finish(p)

SpecIdentity == Init /\ [][NextIdentity]_vars

(***************************************************************************)
(* start() in a child that is scheduled: every OS call and every hook of   *)
(* the child returns, so a step the child stands at is taken.              *)
(***************************************************************************)

\* One step of start() made by the child.
ChildRun ==
    \/ RedirectStep("child") \/ AfterForkChildHook("child") \/ Validate("child")
    \/ SetProcName("child") \/ UmaskStep("child") \/ SetSid("child")
    \/ Chdir("child", "chdir1") \/ WritePid("child") \/ LookupUser("child")
    \/ Chown("child") \/ SetGid("child") \/ InitGroups("child")
    \/ SetUid("child") \/ Chdir("child", "chdir2") \/ Finish("child")

NextLive ==
    \/ SetPidFile \/ SetUser \/ SetGroup \/ SetName \/ SetHook \/ SetPostInitHook
    \/ Start
    \/ \E p \in Procs :
          \/ BeforeForkHook(p) \/ Fork(p) \/ RedirectStep(p)
          \/ AfterForkChildHook(p) \/ Validate(p) \/ SetProcName(p)
          \/ UmaskStep(p) \/ SetSid(p) \/ Chdir(p, "chdir1") \/ WritePid(p)
          \/ LookupUser(p) \/ Chown(p) \/ SetGid(p) \/ InitGroups(p)
          \/ SetUid(p) \/ Chdir(p, "chdir2") \/ Finish(p)

SpecLive == Init /\ [][NextLive]_vars /\ WF_vars(ChildRun)

\* The positions of the log holding a call of op made by process p.
CallsOf(p, op) == {i \in 1..Len(log) : log[i].by = p /\ log[i].op = op}

\* The positions of the log holding any call made by process p.
CallsBy(p) == {i \in 1..Len(log) : log[i].by = p}

ForkCalled == \E i \in 1..Len(log) : log[i].op = "fork"

ForkSucceeded == \E i \in 1..Len(log) : log[i].op = "fork" /\ log[i].ok

ExactlyOneIdentity == IsSome(cfg.user) # IsSome(cfg.group)

PrivilegeOps == {"setgid", "initgroups", "setuid"}

\* The privilege calls process p made, in the order it made them.
PrivilegeCalls(p) ==
    LET IsPriv(e) == e.by = p /\ e.op \in PrivilegeOps
        sel == SelectSeq(log, IsPriv)
    IN  [i \in 1..Len(sel) |-> sel[i].op]

IsPrefix(a, b) == Len(a) <= Len(b) /\ \A i \in 1..Len(a) : a[i] = b[i]

(***************************************************************************)
(* C1. With exactly one of user / group set, when start() returns          *)
(* InvalidUserGroupPair no fork has been called: no child exists and the   *)
(* calling process has not exited.                                         *)
(***************************************************************************)
C1_NoForkOnIncompletePair ==
    \A p \in Procs :
        ExactlyOneIdentity /\ ret[p] = "InvalidUserGroupPair" =>
            /\ ~ForkCalled
            /\ pc["child"] = "unborn"
            /\ pc["caller"] \notin {"exited", "in_parent_hook"}

(***************************************************************************)
(* C2. With chown_pid_file set and user or group missing, start() fails    *)
(* with InvalidUserGroupPair as its first action: when the error is        *)
(* returned the pre-fork hook has not run, no fork has happened and no     *)
(* standard descriptor has been rewired.                                   *)
(***************************************************************************)
C2_ChownWithoutIdentityFailsFirst ==
    \A p \in Procs :
        /\ cfg.chown_pid_file
        /\ IsNone(cfg.user) \/ IsNone(cfg.group)
        /\ ret[p] = "InvalidUserGroupPair"
        => /\ log = <<>>
           /\ \A i \in 0..2 : fds["caller"][i] = "tty"
           /\ pc["child"] = "unborn"

(***************************************************************************)
(* C3. With user and group configured the privilege calls of a run are     *)
(* made in the order setgid, initgroups (not on macos), setuid, each at    *)
(* most once: what a process has called so far is a prefix of that         *)
(* sequence, and the whole of it once start() has returned Ok.             *)
(***************************************************************************)
C3_Expected ==
    IF os = "macos" THEN <<"setgid", "setuid">>
                    ELSE <<"setgid", "initgroups", "setuid">>

C3_PrivilegeOrder ==
    \A p \in Procs :
        /\ IsPrefix(PrivilegeCalls(p), C3_Expected)
        /\ DropsPrivileges /\ ret[p] = "Ok" => PrivilegeCalls(p) = C3_Expected

C3_Witness ==
    /\ DropsPrivileges
    /\ os = "linux"
    /\ ret["child"] = "Ok"
    /\ PrivilegeCalls("child") = <<"setgid", "initgroups", "setuid">>

(***************************************************************************)
(* C4. A chown of the pid file is made with the configured (uid, gid) on   *)
(* the configured path and before any of setgid, initgroups, setuid of     *)
(* the same process; with chown_pid_file set and a pid file configured no  *)
(* privilege call is made without a successful chown before it; a failed   *)
(* chown returns ChownPid with none of the three privilege calls made.     *)
(***************************************************************************)
C4_ChownBeforePrivilegeDrop ==
    \A p \in Procs :
        /\ \A i \in CallsOf(p, "chown") :
              /\ log[i].n = <<Unwrap(cfg.user).id, Unwrap(cfg.group).id>>
              /\ log[i].s = Unwrap(cfg.pid_file)
              /\ \A j \in CallsBy(p) : log[j].op \in PrivilegeOps => i < j
              /\ ~log[i].ok => ret[p] = "ChownPid" /\ PrivilegeCalls(p) = <<>>
        /\ cfg.chown_pid_file /\ has_pid_file /\ PrivilegeCalls(p) # <<>> =>
              \E i \in CallsOf(p, "chown") : log[i].ok
        /\ Cardinality(CallsOf(p, "chown")) <= 1

C4_Witness ==
    /\ \E i \in CallsOf("child", "chown") : log[i].ok
    /\ CallsOf("child", "setuid") # {}
    /\ pidfile.uid = TheUser.id /\ pidfile.gid = TheGroup.id

(***************************************************************************)
(* C5. After a successful fork the parent does not go on in start(): it    *)
(* has exited with status 0 (no post-fork-parent hook) or is inside the    *)
(* hook, called with (parent_pid, child_pid), which never returns; the     *)
(* only call the parent makes after the fork is that exit or that hook,    *)
(* and start() has not returned in the parent.                             *)
(***************************************************************************)
C5_ParentStopsAtFork ==
    \A f \in CallsOf("caller", "fork") :
        log[f].ok =>
            /\ ret["caller"] = "none"
            /\ pc["caller"] = IF cfg.after_fork_parent_hook THEN "in_parent_hook"
                                                            ELSE "exited"
            /\ \A j \in CallsBy("caller") :
                  j > f =>
                      /\ j = f + 1
                      /\ log[j] = IF cfg.after_fork_parent_hook
                                    THEN Call("after_fork_parent_hook", "caller", TRUE,
                                              <<ParentPid, ChildPid>>, "")
                                    ELSE Call("exit", "caller", TRUE, <<0>>, "")
            /\ \E j \in CallsBy("caller") : j > f

C5_Witness ==
    /\ cfg.after_fork_parent_hook
    /\ pc["caller"] = "in_parent_hook"
    /\ ret["child"] = "Ok"
    /\ DropsPrivileges

(***************************************************************************)
(* C6. redirect_stdio is called only by the child, after a successful      *)
(* fork: the descriptors 0-2 of the calling process are never closed or    *)
(* rewired, before the fork or when the fork fails, and the redirection    *)
(* comes before any privilege call.                                        *)
(***************************************************************************)
C6_RedirectInChildOnly ==
    /\ \A i \in 0..2 : fds["caller"][i] = "tty"
    /\ \A i \in 1..Len(log) :
          log[i].op = "redirect_stdio" /\ log[i].ok =>
              /\ log[i].by = "child"
              /\ \E f \in 1..(i - 1) : log[f].op = "fork" /\ log[f].ok
              /\ \A j \in 1..(i - 1) : log[j].op \notin PrivilegeOps

(***************************************************************************)
(* C7. The first step of start() that fails ends the sequence: the failed  *)
(* call is the last call of its process, start() has returned that step's  *)
(* error, no later step has run, and no step is made twice (chdir, which   *)
(* start() holds twice, at most twice).                                    *)
(***************************************************************************)
C7_ErrorsOf(op) ==
    CASE op = "fork" -> {"Fork"}
      [] op = "redirect_stdio" -> {"OpenDevNull", "CloseFp", "RedirectStream"}
      [] op = "set_proc_name" -> {"InvalidProcName", "SetProcName", "UnsupportedOnOS"}
      [] op = "setsid" -> {"SetSid"}
      [] op = "chdir" -> {"ChDir"}
      [] op = "write_pid" -> {"WritePid"}
      [] op = "lookup_record_by_id" -> {"InvalidUser"}
      [] op = "chown" -> {"ChownPid"}
      [] op = "setgid" -> {"SetGid"}
      [] op = "initgroups" -> {"InitGroups"}
      [] op = "setuid" -> {"SetUid"}
      [] OTHER -> {}

C7_AfterUmask ==
    {"umask", "setsid", "chdir", "write_pid", "lookup_record_by_id", "chown",
     "setgid", "initgroups", "setuid", "after_init_hook"}

C7_FirstFailureEnds ==
    \A p \in Procs :
        /\ \A i \in CallsBy(p) :
              ~log[i].ok =>
                  /\ \A j \in CallsBy(p) : j <= i
                  /\ ret[p] \in C7_ErrorsOf(log[i].op)
        /\ ret[p] # "none" => pc[p] = "returned"
        /\ ret[p] \in Errors \ {"InvalidUmaskBits", "InvalidUserGroupPair"} =>
              \E i \in CallsBy(p) : ~log[i].ok
        /\ ret[p] = "InvalidUmaskBits" =>
              \A i \in CallsBy(p) : log[i].op \notin C7_AfterUmask
        /\ ret[p] = "InvalidUserGroupPair" =>
              \A i \in CallsBy(p) : log[i].op \notin C7_AfterUmask \cup {"set_proc_name"}
        /\ \A i, j \in CallsBy(p) :
              log[i].op = log[j].op /\ log[i].op # "chdir" => i = j
        /\ Cardinality(CallsOf(p, "chdir")) <= 2

C7_Witness ==
    /\ ret["child"] = "SetUid"
    /\ \E i \in CallsOf("child", "setgid") : log[i].ok
    /\ \E i \in CallsOf("child", "setuid") : ~log[i].ok

(***************************************************************************)
(* C8. The umask is applied only when the configured value lies in         *)
(* 0..=0o777: for a value outside that range no umask call is made and     *)
(* start() does not return Ok.                                             *)
(***************************************************************************)
C8_UmaskOnlyWithin0o777 ==
    /\ \A i \in 1..Len(log) : log[i].op = "umask" => cfg.umask \in 0..511
    /\ \A p \in Procs : cfg.umask \notin 0..511 => ret[p] # "Ok"

(***************************************************************************)
(* C9. On every run of start() that returns Ok, chdir is called exactly    *)
(* twice, both times with the configured work directory, whether or not    *)
(* user and group are configured: once after setsid and before the pid     *)
(* file is written, and once after the privilege calls as the last OS      *)
(* call, with only the post-init hook after it.                            *)
(***************************************************************************)
C9_ChdirTwice ==
    \A p \in Procs :
        ret[p] = "Ok" =>
            LET cd == CallsOf(p, "chdir") IN
            /\ Cardinality(cd) = 2
            /\ \A i \in cd : log[i].ok /\ log[i].s = cfg.chdir
            /\ \E i1, i2 \in cd :
                  /\ i1 < i2
                  /\ \E j \in CallsOf(p, "setsid") : j < i1
                  /\ \A j \in CallsBy(p) :
                        log[j].op \in PrivilegeOps \cup
                                {"write_pid", "lookup_record_by_id", "chown"}
                            => i1 < j /\ j < i2
                  /\ \A j \in CallsBy(p) : j > i2 => log[j].op = "after_init_hook"

C9_Witness ==
    /\ ret["child"] = "Ok"
    /\ DropsPrivileges
    /\ has_pid_file
    /\ cfg.after_init_hook
    /\ cfg.chdir = "."
    /\ Cardinality(CallsOf("child", "chdir")) = 2

(***************************************************************************)
(* C10. The pre-fork hook is called only when configured, by the calling   *)
(* process, with that process' pid, before any fork call and at most       *)
(* once; when it is configured and fork has been called it has been        *)
(* called exactly once. It is never called by the child.                   *)
(***************************************************************************)
C10_Calls == {i \in 1..Len(log) : log[i].op = "before_fork_hook"}

C10_PreForkHookOnce ==
    /\ \A i \in C10_Calls :
          /\ cfg.before_fork_hook
          /\ log[i].by = "caller"
          /\ log[i].n = <<ParentPid>>
          /\ \A j \in 1..i : log[j].op # "fork"
    /\ Cardinality(C10_Calls) <= 1
    /\ cfg.before_fork_hook /\ ForkCalled => Cardinality(C10_Calls) = 1

C10_Witness ==
    /\ cfg.before_fork_hook
    /\ ret["child"] = "Ok"
    /\ Cardinality(C10_Calls) = 1

(***************************************************************************)
(* C11. The post-fork-child hook is called only when configured, only by   *)
(* the child, with (parent_pid, child_pid), at most once, and never by     *)
(* the parent. As stated: once fork has succeeded and the child's run has  *)
(* ended, a configured hook has been called exactly once.                  *)
(***************************************************************************)
C11_Calls == {i \in 1..Len(log) : log[i].op = "after_fork_child_hook"}

C11_RedirectErrors == {"OpenDevNull", "CloseFp", "RedirectStream"}

C11_CalledRight ==
    /\ \A i \in C11_Calls :
          /\ cfg.after_fork_child_hook
          /\ log[i].by = "child"
          /\ log[i].n = <<ParentPid, ChildPid>>
          /\ \E f \in 1..(i - 1) : log[f].op = "fork" /\ log[f].ok
    /\ Cardinality(C11_Calls) <= 1

C11_ChildHookOnEveryFork ==
    /\ C11_CalledRight
    /\ cfg.after_fork_child_hook /\ ForkSucceeded /\ ret["child"] # "none" =>
          Cardinality(C11_Calls) = 1

\* C11, amended: the hook comes after the child's redirect_stdio, and is
\* called exactly once on the runs in which fork and that redirection both
\* succeed; when the redirection fails start() returns its error and the
\* hook is not called.
C11_ChildHookAfterRedirect ==
    /\ C11_CalledRight
    /\ \A i \in C11_Calls :
          \E r \in CallsOf("child", "redirect_stdio") : r < i /\ log[r].ok
    /\ cfg.after_fork_child_hook /\ ret["child"] # "none" =>
          IF ret["child"] \in C11_RedirectErrors
            THEN C11_Calls = {}
            ELSE Cardinality(C11_Calls) = 1

C11_Witness ==
    /\ cfg.after_fork_child_hook
    /\ ret["child"] = "Ok"
    /\ Cardinality(C11_Calls) = 1

(***************************************************************************)
(* C12. The post-init hook is called only when configured, with the        *)
(* context given to setup_post_init_hook, at most once, as the last call   *)
(* of a run all of whose earlier calls succeeded, right after the second   *)
(* chdir; start() has then returned Ok. On a run that returns an error it  *)
(* is not called, and on a run that returns Ok with a hook configured it   *)
(* is called exactly once.                                                 *)
(***************************************************************************)
C12_PostInitHookLast ==
    \A p \in Procs :
        LET calls == CallsOf(p, "after_init_hook") IN
        /\ \A i \in calls :
              /\ cfg.after_init_hook
              /\ log[i].n = cfg.after_init_hook_data
              /\ ret[p] = "Ok"
              /\ \A j \in CallsBy(p) : j <= i /\ log[j].ok
              /\ Cardinality({c \in CallsOf(p, "chdir") : c < i}) = 2
              /\ \E c \in CallsOf(p, "chdir") :
                    c < i /\ \A j \in CallsBy(p) : ~(c < j /\ j < i)
        /\ Cardinality(calls) <= 1
        /\ cfg.after_init_hook /\ ret[p] = "Ok" => Cardinality(calls) = 1
        /\ ret[p] \in Errors => calls = {}

C12_Witness ==
    /\ cfg.after_init_hook
    /\ IsSome(cfg.after_init_hook_data)
    /\ DropsPrivileges
    /\ ret["child"] = "Ok"
    /\ \E i \in CallsOf("child", "after_init_hook") : log[i].n = <<7>>

(***************************************************************************)
(* C13. After the pid file block has run without failure the file exists   *)
(* and its whole content is the decimal text of the pid: digits only, no   *)
(* leading zero, no newline or padding, of value pid, whatever the file    *)
(* held before; the block fails exactly when File::create or write_all     *)
(* fails, and the error is then WritePid.                                  *)
(***************************************************************************)
C13_Digit(c) == CHOOSE d \in 0..9 : Digits[d + 1] = c

C13_IsDecimal(text) ==
    /\ Len(text) >= 1
    /\ \A i \in 1..Len(text) : \E d \in 0..9 : Digits[d + 1] = text[i]
    /\ Len(text) > 1 => text[1] # "0"

RECURSIVE C13_Value(_)
C13_Value(text) ==
    IF Len(text) = 0 THEN 0
    ELSE 10 * C13_Value(SubSeq(text, 1, Len(text) - 1)) + C13_Digit(text[Len(text)])

C14_PidOfChildAfterSetsid ==
    \A i \in 1..Len(log) :
        log[i].op = "write_pid" =>
            /\ log[i].by = "child"
            /\ log[i].n = <<ChildPid>>
            /\ log[i].n # <<ParentPid>>
            /\ \E f \in 1..(i - 1) : log[f].op = "fork" /\ log[f].ok
            /\ \E s \in CallsOf("child", "setsid") : s < i /\ log[s].ok
            /\ log[i].ok =>
                  /\ C13_Value(pidfile.content) = ChildPid
                  /\ C13_Value(pidfile.content) # ParentPid

C14_Witness ==
    /\ ret["child"] = "Ok"
    /\ \E i \in CallsOf("child", "write_pid") : log[i].ok
    /\ pidfile.exists
    /\ pidfile.content = <<"1", "0", "1">>

(***************************************************************************)
(* C15. When redirect_stdio returns Ok, each of the descriptors 0, 1, 2    *)
(* refers to the null device if its directive is Devnull, and to the open  *)
(* file of f if its directive is RedirectToFile(f).                        *)
(***************************************************************************)
C15_Directive(fd) ==
    IF fd = 0 THEN cfg.stdin ELSE IF fd = 1 THEN cfg.stdout ELSE cfg.stderr

C15_Target(fd) ==
    IF C15_Directive(fd).kind = "Devnull" THEN "devnull" ELSE C15_Directive(fd).file

C15_RedirectedAsDirected ==
    out.call = "redirect_stdio" /\ out.err = "" =>
        \A fd \in 0..2 : fds["caller"][fd] = C15_Target(fd)

(***************************************************************************)
(* C16. A failure inside redirect_stdio ends the call at once with an      *)
(* error: the streams after the failing one are not processed and the      *)
(* descriptors rewired before it stay rewired. As stated, the error is     *)
(* RedirectStream whichever of the open, the close or the dup2 failed.     *)
(***************************************************************************)
\* The call has nothing to fail on but the failure oc names: 0, 1, 2 are
\* open, the files sit above them and a descriptor is free for the null device.
C16_Standard ==
    /\ \A fd \in 0..2 : out.before[fd] = "tty"
    /\ LowestFree(out.before) # -1

C16_NoFailure ==
    RedirectStdio(out.before, cfg.stdin, cfg.stdout, cfg.stderr,
                  [at |-> 3, kind |-> "none"])

C16_Unprocessed(fd) ==
    \/ fds["caller"][fd] = out.before[fd]
    \/ out.before[fd] = "closed" /\ fds["caller"][fd] = "devnull"

\* The call stopped at stream k: the streams before k are as a call without
\* failure leaves them, the streams after k are as they were.
C16_StoppedAt(k) ==
    /\ \A fd \in 0..(k - 1) : fds["caller"][fd] = C16_NoFailure.f[fd]
    /\ \A fd \in (k + 1)..2 : C16_Unprocessed(fd)
    /\ IF out.err = "RedirectStream" THEN fds["caller"][k] = "closed"
                                      ELSE C16_Unprocessed(k)
    /\ C16_Standard =>
          /\ k = out.oc.at
          /\ \A fd \in 0..(k - 1) : fds["caller"][fd] = C15_Target(fd)

C16_StopsAtFailure ==
    out.call = "redirect_stdio" =>
        /\ out.oc.kind # "none" => out.err # ""
        /\ out.err = "OpenDevNull" => fds["caller"] = out.before
        /\ out.err \notin {"", "OpenDevNull"} => \E k \in 0..2 : C16_StoppedAt(k)

C16_OneErrorKind ==
    /\ C16_StopsAtFailure
    /\ out.call = "redirect_stdio" /\ out.err # "" => out.err = "RedirectStream"

\* C16, amended: the error names the call that failed, OpenDevNull for the
\* open of the null device, CloseFp for a close, RedirectStream for a dup2.
C16_ErrorPerCall ==
    /\ C16_StopsAtFailure
    /\ out.call = "redirect_stdio" =>
          /\ out.err \in {"", "OpenDevNull", "CloseFp", "RedirectStream"}
          /\ C16_Standard /\ out.oc.kind = "open" => out.err = "OpenDevNull"
          /\ C16_Standard /\ out.oc.kind = "close" => out.err = "CloseFp"
          /\ C16_Standard /\ out.oc.kind = "dup2" => out.err = "RedirectStream"

C16_Witness ==
    /\ out.call = "redirect_stdio"
    /\ C16_Standard
    /\ out.oc = [at |-> 2, kind |-> "dup2"]
    /\ out.err = "RedirectStream"
    /\ fds["caller"][0] = "devnull"
    /\ fds["caller"][1] = "file_out"
    /\ fds["caller"][2] = "closed"

(***************************************************************************)
(* C17. Resolving a user, from a name or from an id, gives an identity or  *)
(* InvalidUser, and resolving a group gives an identity or InvalidGroup:   *)
(* no resolution returns any other error.                                  *)
(***************************************************************************)
C17_TypedFailureOnly ==
    out.call # "none" /\ out.kind \in {"user", "group"} =>
        \/ out.res.ok
        \/ out.kind = "user" /\ out.res.err = "InvalidUser"
        \/ out.kind = "group" /\ out.res.err = "InvalidGroup"

(***************************************************************************)
(* C18. When setuid fails after setgid (and, off macos, initgroups) have   *)
(* succeeded, start() returns SetUid with the process holding the new      *)
(* group id and the new supplementary groups and its earlier user id: the  *)
(* failed setuid is the last call of the process, nothing is called to     *)
(* restore the group identity.                                             *)
(***************************************************************************)
C18_NoCompensation ==
    \A p \in Procs :
        \A i \in CallsOf(p, "setuid") :
            ~log[i].ok =>
                /\ ret[p] = "SetUid"
                /\ \A j \in CallsBy(p) : j <= i
                /\ \E g \in CallsOf(p, "setgid") : g < i /\ log[g].ok
                /\ creds[p].gid = Unwrap(cfg.group).id
                /\ creds[p].gid # RootCreds.gid
                /\ os # "macos" =>
                      /\ \E g \in CallsOf(p, "initgroups") : g < i /\ log[g].ok
                      /\ creds[p].groups = PasswdName(Unwrap(cfg.user).id)
                      /\ creds[p].groups # RootCreds.groups
                /\ creds[p].uid = RootCreds.uid

C18_Witness ==
    /\ os = "linux"
    /\ ret["child"] = "SetUid"
    /\ creds["child"] = [uid |-> 0, gid |-> 2, groups |-> "daemon"]

(***************************************************************************)
(* C19. set_proc_name is called only when a name was configured, and with  *)
(* that name; with no name configured start() never returns                *)
(* InvalidProcName, SetProcName or UnsupportedOnOS, on linux or elsewhere. *)
(***************************************************************************)
C19_NameOnlyWhenConfigured ==
    /\ \A i \in 1..Len(log) :
          log[i].op = "set_proc_name" =>
              IsSome(cfg.name) /\ log[i].s = Unwrap(cfg.name)
    /\ IsNone(cfg.name) =>
          \A p \in Procs :
              ret[p] \notin {"InvalidProcName", "SetProcName", "UnsupportedOnOS"}

C19_Witness ==
    /\ impl = "daemon"
    /\ os = "macos"
    /\ IsNone(cfg.name)
    /\ ret["child"] = "Ok"

(***************************************************************************)
(* C20. With the pid target given as the number n the pid file path is     *)
(* "<runtime-dir>/" followed by the decimal text of n and ".pid" (for 42,  *)
(* "<runtime-dir>/42.pid"), and every write of the pid file, and every     *)
(* chown of it, is made on that path.                                      *)
(***************************************************************************)
C20_IsPathOf(path, n) ==
    /\ Len(path) >= 3
    /\ path[1] = "<runtime-dir>/"
    /\ path[Len(path)] = ".pid"
    /\ C13_IsDecimal(SubSeq(path, 2, Len(path) - 1))
    /\ C13_Value(SubSeq(path, 2, Len(path) - 1)) = n

C20_PidNumPath ==
    IsSome(cfg.pid_num) =>
        /\ has_pid_file
        /\ C20_IsPathOf(Unwrap(cfg.pid_file), Unwrap(cfg.pid_num))
        /\ cfg.pid_num = Some(42) =>
              cfg.pid_file = Some(<<"<runtime-dir>/", "4", "2", ".pid">>)
        /\ \A i \in 1..Len(log) :
              log[i].op \in {"write_pid", "chown"} =>
                  C20_IsPathOf(log[i].s, Unwrap(cfg.pid_num))
        /\ \A p \in Procs :
              ret[p] = "Ok" => \E i \in CallsOf(p, "write_pid") : log[i].ok

C20_Witness ==
    /\ cfg.pid_num = Some(42)
    /\ ret["child"] = "Ok"
    /\ pidfile.exists
    /\ \E i \in CallsOf("child", "write_pid") :
          log[i].ok /\ log[i].s = <<"<runtime-dir>/", "4", "2", ".pid">>

(***************************************************************************)
(* C21. A lookup by name succeeds exactly when the database holds a        *)
(* record of that name and gives the id of that record; a lookup by id     *)
(* succeeds exactly when it holds a record of that id and gives its name   *)
(* (root for 0, 0 for root); and Daemon::new().user(User::try_from(name))  *)
(* stores Some identity with the id the database holds for the name.       *)
(***************************************************************************)
C21_Db == IF out.kind = "passwd" THEN accounts.passwd ELSE accounts.group

C21_LookupsAgree ==
    /\ out.call = "by_name" =>
          /\ out.res.ok <=> \E r \in C21_Db : r.name = out.name
          /\ out.res.ok => [name |-> out.name, id |-> out.res.val.id] \in C21_Db
          /\ out.res.ok /\ out.name = "root" => out.res.val.id = 0
    /\ out.call = "by_id" =>
          /\ out.res.ok <=> \E r \in C21_Db : r.id = out.id
          /\ out.res.ok => [name |-> out.res.val.name, id |-> out.id] \in C21_Db
          /\ out.res.ok /\ out.id = 0 => out.res.val.name = "root"
    /\ out.call = "Daemon::user" =>
          /\ IsSome(cfg.user)
          /\ [name |-> out.name, id |-> Unwrap(cfg.user).id] \in accounts.passwd

C21_Witness ==
    /\ out.call = "Daemon::user"
    /\ out.name = "root"
    /\ cfg.user = Some([id |-> 0, name |-> ""])
    /\ Cardinality(accounts.passwd) = 3

(***************************************************************************)
(* C22. On every successful child run the fork and the redirection of the  *)
(* standard streams come first, then the umask is applied, then the new    *)
(* session is created (setsid), then the pid is recorded, then privileges  *)
(* are dropped, then the run is finalized: no call of a later milestone    *)
(* precedes a call of an earlier one.  The umask is applied before setsid  *)
(* is called, not after it.                                                *)
(***************************************************************************)
C22_PrivilegeBlock == {"lookup_record_by_id", "chown", "setgid", "initgroups", "setuid"}

\* The positions of the log holding a call of one of ops.
C22_Pos(ops) == {i \in 1..Len(log) : log[i].op \in ops}

\* No call of a later milestone of ms precedes a call of an earlier one.
C22_InOrder(ms) ==
    \A a, b \in 1..Len(ms) :
        a < b => \A i \in C22_Pos(ms[a]), j \in C22_Pos(ms[b]) : i < j

C23_ForkFailed == \E i \in 1..Len(log) : log[i].op = "fork" /\ ~log[i].ok

C23_NothingAfterFailedFork ==
    C23_ForkFailed =>
        /\ ret["caller"] = "Fork"
        /\ pc["caller"] = "returned"
        /\ pc["child"] = "unborn" /\ CallsBy("child") = {}
        /\ \A i \in 1..Len(log) : log[i].op \in {"before_fork_hook", "fork"}
        /\ Cardinality(CallsOf("caller", "before_fork_hook"))
              = IF cfg.before_fork_hook THEN 1 ELSE 0
        /\ \A i \in 0..2 : fds["caller"][i] = "tty"
        /\ umaskv["caller"] = 18
        /\ pidfile = NoFile
        /\ creds["caller"] = RootCreds

(***************************************************************************)
(* C24. The privilege-drop block runs if and only if both user and group   *)
(* are configured: a run that called the passwd reverse lookup, chown,     *)
(* setgid, initgroups or setuid has both configured; a successful run with *)
(* both configured called the reverse lookup, setgid and setuid (and       *)
(* initgroups except on macOS); and a run with neither can succeed.        *)
(***************************************************************************)
C24_BlockCalls == {i \in 1..Len(log) : log[i].op \in C22_PrivilegeBlock}

C24_BlockIffBothConfigured ==
    /\ C24_BlockCalls # {} => IsSome(cfg.user) /\ IsSome(cfg.group)
    /\ IsNone(cfg.user) /\ IsNone(cfg.group) =>
          /\ C24_BlockCalls = {}
          /\ creds["caller"] = RootCreds
          /\ creds["child"] \in {NoCreds, RootCreds}
    /\ ret["child"] = "Ok" /\ IsSome(cfg.user) /\ IsSome(cfg.group) =>
          /\ \A op \in {"lookup_record_by_id", "setgid", "setuid"} :
                \E i \in CallsOf("child", op) : log[i].ok
          /\ os # "macos" => \E i \in CallsOf("child", "initgroups") : log[i].ok
          /\ cfg.chown_pid_file => \E i \in CallsOf("child", "chown") : log[i].ok

C24_Witness ==
    /\ IsNone(cfg.user) /\ IsNone(cfg.group)
    /\ ret["child"] = "Ok"
    /\ \E i \in CallsOf("child", "write_pid") : log[i].ok
    /\ C24_BlockCalls = {}

(***************************************************************************)
(* C25. With user and group configured, the user name comes from a reverse *)
(* lookup of the numeric uid, also when the identity was given as a        *)
(* number: every chown, setgid, initgroups and setuid follows a successful *)
(* lookup of the configured uid; a failed lookup makes start() return      *)
(* InvalidUser with none of the four called; and initgroups receives the   *)
(* name that the lookup returned.                                          *)
(***************************************************************************)
C25_AfterLookup == {"chown", "setgid", "initgroups", "setuid"}

C25_NameFromReverseLookup ==
    \A p \in Procs :
        /\ \A i \in CallsOf(p, "lookup_record_by_id") :
              /\ IsSome(cfg.user) /\ IsSome(cfg.group)
              /\ log[i].n = <<Unwrap(cfg.user).id>>
              /\ \A j \in 1..(i - 1) : ~(log[j].by = p /\ log[j].op \in C25_AfterLookup)
              /\ ~log[i].ok =>
                    /\ ret[p] = "InvalidUser"
                    /\ \A j \in CallsBy(p) : log[j].op \notin C25_AfterLookup
        /\ \A i \in CallsBy(p) :
              log[i].op \in C25_AfterLookup =>
                  \E l \in CallsOf(p, "lookup_record_by_id") :
                      /\ l < i /\ log[l].ok
                      /\ log[i].op = "initgroups" => log[i].s = log[l].s
                      /\ [name |-> log[l].s, id |-> Unwrap(cfg.user).id] \in accounts.passwd

C25_Witness ==
    /\ IsSome(cfg.user) /\ IsSome(cfg.group)
    /\ Unwrap(cfg.user) = [id |-> 1, name |-> ""]
    /\ ret["child"] = "Ok"
    /\ \E i \in CallsOf("child", "initgroups") : log[i].ok /\ log[i].s = "daemon"

(***************************************************************************)
(* C26. In process.rs, redirect_stdio returns Ok when the null device can  *)
(* be opened, descriptors 0, 1, 2 are open and no call fails for a reason  *)
(* of its own; close_and_dub has then left each of 0, 1, 2 referring to    *)
(* the open file of its target (the null device or the caller's file), in  *)
(* the order stdin, stdout, stderr, with the target still open.            *)
(***************************************************************************)
C26_Target(stdio) == IF stdio.kind = "Devnull" THEN "devnull" ELSE stdio.file

C26_CloseAndDubRedirects ==
    /\ out.call = "process::redirect_stdio"
    /\ out.oc.kind = "none"
    /\ LowestFree(out.before) # -1
    /\ \A fd \in 0..2 : out.before[fd] # "closed"
    =>
    /\ out.err = ""
    /\ fds["caller"][0] = C26_Target(cfg.stdin)
    /\ fds["caller"][1] = C26_Target(cfg.stdout)
    /\ fds["caller"][2] = C26_Target(cfg.stderr)
    /\ \E fd \in 3..MaxFd : out.before[fd] = "closed" /\ fds["caller"][fd] = "devnull"

(***************************************************************************)
(* C27. For every combination of the three directives and every open or    *)
(* closed state of descriptors 0, 1, 2 before the call (the files of the   *)
(* caller sitting above 2, the null device opened on the lowest free       *)
(* descriptor): when redirect_stdio returns Ok each Devnull stream refers  *)
(* to the null device and each RedirectToFile stream to its file, and the  *)
(* descriptor the null device was opened on still refers to it: the call's *)
(* own close and dup2 steps have not closed or overwritten it.             *)
(***************************************************************************)
C27_FilesAboveStd ==
    \A s \in {cfg.stdin, cfg.stdout, cfg.stderr} :
        s.kind = "RedirectToFile" => s.raw_fd > 2

C27_DevnullKept ==
    out.call = "redirect_stdio" /\ C27_FilesAboveStd =>
        /\ out.devnull_fd # -1 =>
              /\ out.devnull_fd = LowestFree(out.before)
              /\ fds["caller"][out.devnull_fd] = "devnull"
        /\ out.err = "" =>
              /\ fds["caller"][0] = C26_Target(cfg.stdin)
              /\ fds["caller"][1] = C26_Target(cfg.stdout)
              /\ fds["caller"][2] = C26_Target(cfg.stderr)

(***************************************************************************)
(* C28. After any sequence of builder calls from Daemon::new(), and        *)
(* through start(), chown_pid_file = true implies pid_file is Some: the    *)
(* two fields hold what new() or a call of pid_file() gave them, pid_file() *)
(* sets the path and the flag together and changes no other field, and     *)
(* pid_file(path, None) on any configuration leaves the flag false.        *)
(***************************************************************************)
C28_PidFields(d) == <<d.pid_file, d.chown_pid_file>>

C28_ChownImpliesPidFile ==
    /\ cfg.chown_pid_file => IsSome(cfg.pid_file)
    /\ \/ C28_PidFields(cfg) = C28_PidFields(NewDaemon)
       \/ \E chmod \in ChmodValues :
             C28_PidFields(cfg) = C28_PidFields(pid_file(NewDaemon, PidPath, chmod))
    /\ \A chmod \in ChmodValues :
          LET d == pid_file(cfg, PidPath, chmod) IN
          /\ d.pid_file = Some(PidPath)
          /\ d.chown_pid_file = (chmod = Some(TRUE))
          /\ chmod = None => ~d.chown_pid_file
          /\ \A k \in (DOMAIN cfg) \ {"pid_file", "chown_pid_file"} : d[k] = cfg[k]

C28_Witness ==
    /\ Building
    /\ cfg.chown_pid_file /\ IsSome(cfg.pid_file)
    /\ IsSome(cfg.user)
    /\ ~pid_file(cfg, PidPath, None).chown_pid_file

(***************************************************************************)
(* C29. A pid file that was written is never removed or rewritten by       *)
(* start(): from the successful write on, in every later state and on      *)
(* every error return (reverse lookup, chown, setgid, initgroups, setuid,  *)
(* final chdir), the file exists and holds the child's pid, and the file   *)
(* is written at most once.                                                *)
(***************************************************************************)
C29_LaterErrors == {"InvalidUser", "ChownPid", "SetGid", "InitGroups", "SetUid", "ChDir"}

C29_PidFileKept ==
    /\ Cardinality(C22_Pos({"write_pid"})) <= 1
    /\ \A w \in C22_Pos({"write_pid"}) :
          log[w].ok =>
              /\ pidfile.exists
              /\ pidfile.content = to_string(ChildPid)
              /\ C13_Value(pidfile.content) = ChildPid
              /\ \A i \in (w + 1)..Len(log) :
                    ~log[i].ok => ret[log[i].by] \in C29_LaterErrors

C29_Witness ==
    /\ ret["child"] \in {"SetUid", "ChownPid"}
    /\ \E w \in CallsOf("child", "write_pid") :
          log[w].ok /\ log[Len(log)].op \in {"setuid", "chown"} /\ ~log[Len(log)].ok
    /\ pidfile.exists
    /\ pidfile.content = <<"1", "0", "1">>

(***************************************************************************)
(* C30. group_copy_user() on a builder with no user returns InvalidUser;   *)
(* with a user it sets the group to the group the database holds under the *)
(* user's name and leaves every other field as it was, or returns          *)
(* InvalidGroup when there is no such group; after Ok both user and group  *)
(* are set and the identity-pair validation of start() passes.             *)
(***************************************************************************)
C30_GroupCopyUser ==
    out.call = "group_copy_user" =>
        /\ IsNone(out.before.user) => ~out.res.ok /\ out.res.err = "InvalidUser"
        /\ IsSome(out.before.user) =>
              LET uname == Unwrap(out.before.user).name IN
              /\ out.res.ok <=> \E g \in accounts.group : g.name = uname
              /\ ~out.res.ok => out.res.err = "InvalidGroup"
              /\ out.res.ok =>
                    /\ IsSome(cfg.group)
                    /\ Unwrap(cfg.group).name = uname
                    /\ [name |-> uname, id |-> Unwrap(cfg.group).id] \in accounts.group
        /\ \A k \in (DOMAIN cfg) \ {"group"} : cfg[k] = out.before[k]
        /\ ~out.res.ok => cfg = out.before
        /\ out.res.ok => IsSome(cfg.user) /\ IsSome(cfg.group) /\ ~ConfigInvalid

C30_Witness ==
    /\ out.call = "group_copy_user" /\ out.res.ok
    /\ cfg.chown_pid_file
    /\ Unwrap(cfg.user) = [id |-> 1, name |-> "daemon"]
    /\ out.before.group = Some(TheGroup)
    /\ cfg.group = Some([id |-> 2, name |-> "daemon"])

(***************************************************************************)
(* C31. Provided every OS call and every hook of the child returns, the    *)
(* child's run of start() reaches a terminal outcome, Ok or one error,     *)
(* after finitely many steps: once the child exists it eventually has      *)
(* returned with a result; and the sequence has no loop: every change of   *)
(* position of a process goes to a later step of start() or leaves it, a   *)
(* process makes no call without moving on, and a process that has         *)
(* returned stays returned with the result it has.                         *)
(***************************************************************************)
C31_Terminal == {"returned", "exited", "in_parent_hook"}

\* How far in start() a position is.
C31_Rank(s) ==
    IF s \in {"build", "unborn"} THEN 0
    ELSE IF s \in C31_Terminal THEN Len(Order) + 1
    ELSE IndexOf(Order, s)

C31_Forward ==
    \A p \in Procs :
        /\ pc'[p] # pc[p] => C31_Rank(pc'[p]) > C31_Rank(pc[p])
        /\ pc[p] \in C31_Terminal => pc'[p] = pc[p] /\ ret'[p] = ret[p]
        /\ pc'[p] = pc[p] => CallsBy(p)' = CallsBy(p)

C31_ChildTerminates ==
    /\ (pc["child"] # "unborn") ~> (pc["child"] = "returned" /\ ret["child"] # "none")
    /\ [][C31_Forward]_vars

C31_Witness ==
    /\ impl = "daemon"
    /\ pc["child"] = "returned" /\ ret["child"] = "Ok"
    /\ cfg.before_fork_hook /\ cfg.after_fork_child_hook /\ cfg.after_init_hook
    /\ IsSome(cfg.user) /\ IsSome(cfg.pid_file)
    /\ Len(log) > 10

====
